---- MODULE Spec2Model ----
(***************************************************************************)
(* Model of src/artifactory_api.py: class Artifactory, a wrapper around    *)
(* ArtifactoryPath that builds a listing URL, selects an artifact by name  *)
(* or by MIME type, and downloads it to the local disk.                    *)
(*                                                                         *)
(* Python strings are modelled as sequences of one-character strings, so   *)
(* that formatting and path joining are computed character by character.   *)
(***************************************************************************)
EXTENDS Integers, Sequences, FiniteSets, TLC

VARIABLES self, remote, fs, pc, dl, handles, result, call, created, ncalls

vars == <<self, remote, fs, pc, dl, handles, result, call, created, ncalls>>

(***************************************************************************)
(* Bounds of the model.                                                    *)
(***************************************************************************)
MaxEntries == 2
MaxCalls == 2

(***************************************************************************)
(* The value of a field that has not been set.                             *)
(***************************************************************************)
None == "None"

(***************************************************************************)
(* String helpers.                                                         *)
(***************************************************************************)
Max(S) == CHOOSE m \in S : \A x \in S : x <= m

RECURSIVE IndexFrom(_, _, _)
IndexFrom(s, c, i) ==
    IF i > Len(s) THEN 0
    ELSE IF s[i] = c THEN i
    ELSE IndexFrom(s, c, i + 1)

(***************************************************************************)
(* str.format with keyword arguments and named replacement fields: literal text is     *)
(* copied, "{name}" is replaced by kwargs[name]; the inserted value is not *)
(* scanned again.                                                          *)
(***************************************************************************)
RECURSIVE FormatFrom(_, _, _)
FormatFrom(tpl, kwargs, i) ==
    IF i > Len(tpl) THEN <<>>
    ELSE IF tpl[i] = "{"
         THEN LET j == IndexFrom(tpl, "}", i + 1)
              IN  kwargs[SubSeq(tpl, i + 1, j - 1)] \o FormatFrom(tpl, kwargs, j + 1)
         ELSE <<tpl[i]>> \o FormatFrom(tpl, kwargs, i + 1)

format(tpl, kwargs) == FormatFrom(tpl, kwargs, 1)

(* variant: repo and group exchanged *)
URL_TEMPLATE_Swapped ==
    <<"{","u","r","l","}","/","a","r","t","i","f","a","c","t","o","r","y","/",
      "{","g","r","o","u","p","}","/","{","r","e","p","o","}","/",
      "{","a","r","t","i","f","a","c","t","}","/",
      "{","v","e","r","s","i","o","n","}">>

URL_TEMPLATE ==
    <<"{","u","r","l","}","/","a","r","t","i","f","a","c","t","o","r","y","/",
      "{","r","e","p","o","}","/","{","g","r","o","u","p","}","/",
      "{","a","r","t","i","f","a","c","t","}","/",
      "{","v","e","r","s","i","o","n","}">>

K_url == <<"u","r","l">>
K_repo == <<"r","e","p","o">>
K_group == <<"g","r","o","u","p">>
K_artifact == <<"a","r","t","i","f","a","c","t">>
K_version == <<"v","e","r","s","i","o","n">>

_construct_url(obj) ==
    format(URL_TEMPLATE,
           (K_url :> obj.url) @@ (K_repo :> obj.repo) @@ (K_group :> obj.group)
           @@ (K_artifact :> obj.artifact) @@ (K_version :> obj.version))

(***************************************************************************)
(* ArtifactoryPath(url, auth=(username, password)): the client object.     *)
(* Creating it performs no network access.                                 *)
(***************************************************************************)
ArtifactoryPath(url, auth, id) == [id |-> id, url |-> url, auth |-> auth]

Unbuilt ==
    [url |-> <<>>, repo |-> <<>>, group |-> <<>>, artifact |-> <<>>,
     version |-> <<>>, username |-> <<>>, password |-> <<>>, client |-> None]

__init__(a, id) ==
    LET fields == [url |-> a.url, repo |-> a.repo, group |-> a.group,
                   artifact |-> a.artifact, version |-> a.version,
                   username |-> a.username, password |-> a.password,
                   client |-> None]
    IN  [fields EXCEPT !.client =
            ArtifactoryPath(_construct_url(fields),
                            <<fields.username, fields.password>>, id)]

(***************************************************************************)
(* Keyword arguments of a call: a function from the names of the arguments *)
(* that were passed to their values; an omitted argument takes its         *)
(* default.                                                                *)
(***************************************************************************)
NoKw == [k \in {} |-> <<>>]

Arg(kw, k, default) == IF k \in DOMAIN kw THEN kw[k] ELSE default

Truthy(s) == Len(s) > 0

(***************************************************************************)
(* The remote repository: the entries listed under one URL.  An entry has  *)
(* a name, a MIME type (from stat) and the bytes its stream yields.        *)
(***************************************************************************)
JAR == "application/java-archive"
POM == "application/x-maven-pom+xml"
Mimes == {JAR, POM}
Names == {<<"a">>, <<"b">>}
Contents == {<<1>>, <<2, 3>>}

Entry == [name : Names, mime : Mimes, content : Contents]

Listings == UNION {[1..n -> Entry] : n \in 0..MaxEntries}

NoEntry == [idx |-> 0, name |-> <<>>, mime |-> "", content |-> <<>>]
NoError == [type |-> "", message |-> <<>>]

(* list(self.client): the entries under the client's URL, in listing order; *)
(* each element is an object, identified here by its position.              *)
list(client, rem) ==
    IF client.url = rem.url
    THEN [i \in 1..Len(rem.entries) |->
            [idx |-> i, name |-> rem.entries[i].name,
             mime |-> rem.entries[i].mime, content |-> rem.entries[i].content]]
    ELSE <<>>

(* variant: the listing is scanned in its own order *)
reversed_Forward(s) == s

reversed(s) == [i \in 1..Len(s) |-> s[Len(s) + 1 - i]]

(***************************************************************************)
(* Outcomes of a call: a returned entry or a raised error, with the number *)
(* of entries the loop examined and the clients that were enumerated.      *)
(***************************************************************************)
Return(v, n, ids) ==
    [status |-> "return", value |-> v, error |-> NoError, scanned |-> n, enum |-> ids]

Raise(e, n, ids) ==
    [status |-> "raise", value |-> NoEntry, error |-> e, scanned |-> n, enum |-> ids]

(* Exception("Artifact {0} not found.".format(artifact_name)) *)
NotFound(artifact_name) ==
    [type |-> "Exception", message |-> <<"Artifact ", artifact_name, " not found.">>]

(* reading the local latest_artifact before any assignment to it *)
UnboundLocalError == [type |-> "UnboundLocalError", message |-> <<"latest_artifact">>]

(* any failure of the underlying client: propagates unchanged *)
UpstreamError == [type |-> "UpstreamError", message |-> <<>>]

(* a failure of the local filesystem: propagates unchanged *)
OSError == [type |-> "OSError", message |-> <<>>]

(***************************************************************************)
(* The for loops of get_by_name and get_latest over the reversed listing:  *)
(* position of the first match, 0 when the loop runs to its end.           *)
(***************************************************************************)
(* variant: the loop gives up after the first entry *)
LoopName_First(rev, artifact_name, i) ==
    IF i > Len(rev) THEN [at |-> 0, scanned |-> Len(rev)]
    ELSE IF rev[i].name = artifact_name THEN [at |-> i, scanned |-> i]
    ELSE [at |-> 0, scanned |-> i]

RECURSIVE LoopName(_, _, _)
LoopName(rev, artifact_name, i) ==
    IF i > Len(rev) THEN [at |-> 0, scanned |-> Len(rev)]
    ELSE IF rev[i].name = artifact_name THEN [at |-> i, scanned |-> i]
    ELSE LoopName(rev, artifact_name, i + 1)

(* variant: the loop has no break, the last match in scan order wins *)
LoopMime_NoBreak(rev, mime_type, i) ==
    LET S == {j \in i..Len(rev) : rev[j].mime = mime_type}
    IN  IF S = {} THEN [at |-> 0, scanned |-> Len(rev)]
        ELSE [at |-> Max(S), scanned |-> Len(rev)]

RECURSIVE LoopMime(_, _, _)
LoopMime(rev, mime_type, i) ==
    IF i > Len(rev) THEN [at |-> 0, scanned |-> Len(rev)]
    ELSE IF rev[i].mime = mime_type THEN [at |-> i, scanned |-> i]
    ELSE LoopMime(rev, mime_type, i + 1)

get_by_name(obj, rem, artifact_name, fail) ==
    IF fail THEN Raise(UpstreamError, 0, <<obj.client.id>>)
    ELSE LET rev == reversed(list(obj.client, rem))
             r == LoopName(rev, artifact_name, 1)
         IN  IF r.at = 0
             THEN Raise(NotFound(artifact_name), r.scanned, <<obj.client.id>>)
             ELSE Return(rev[r.at], r.scanned, <<obj.client.id>>)

get_latest(obj, rem, kw, fail) ==
    IF fail THEN Raise(UpstreamError, 0, <<obj.client.id>>)
    ELSE LET mime_type == Arg(kw, "mime_type", JAR)
             rev == reversed(list(obj.client, rem))
             r == LoopMime(rev, mime_type, 1)
         IN  IF r.at = 0
             THEN Raise(UnboundLocalError, r.scanned, <<obj.client.id>>)
             ELSE Return(rev[r.at], r.scanned, <<obj.client.id>>)

(***************************************************************************)
(* The local filesystem.  os.path.join, and the resolution of a path to    *)
(* the file it names (empty components are ignored).                       *)
(***************************************************************************)
TMP_DIR == <<"/", "t", "m", "p">>

os_path_join(a, b) ==
    IF Len(b) > 0 /\ b[1] = "/" THEN b
    ELSE IF Len(a) = 0 \/ a[Len(a)] = "/" THEN a \o b
    ELSE a \o <<"/">> \o b

RECURSIVE SplitFrom(_, _, _)
SplitFrom(p, i, cur) ==
    IF i > Len(p) THEN (IF cur = <<>> THEN <<>> ELSE <<cur>>)
    ELSE IF p[i] = "/"
         THEN (IF cur = <<>> THEN <<>> ELSE <<cur>>) \o SplitFrom(p, i + 1, <<>>)
         ELSE SplitFrom(p, i + 1, Append(cur, p[i]))

Resolve(p) == [abs |-> Len(p) > 0 /\ p[1] = "/", comps |-> SplitFrom(p, 1, <<>>)]

Dirs == {<<"/", "o">>, <<"/", "o", "/">>}
PathArgs == Dirs \cup {<<>>}

FsKeys == {Resolve(os_path_join(d, n)) : d \in Dirs \cup {TMP_DIR}, n \in Names}

Absent == [exists |-> FALSE, data |-> <<>>]
File(data) == [exists |-> TRUE, data |-> data]

Prefixes(s) == {SubSeq(s, 1, n) : n \in 0..Len(s)}

(***************************************************************************)
(* download, lines 97-106: the selection and the destination path.         *)
(***************************************************************************)
(* variant: the name is tested for being passed, not for being non-empty *)
download_select_IsGiven(obj, rem, kw, fail) ==
    IF "artifact_name" \in DOMAIN kw
    THEN [delegate |-> "get_by_name", dkw |-> [artifact_name |-> kw.artifact_name],
          out |-> get_by_name(obj, rem, kw.artifact_name, fail)]
    ELSE [delegate |-> "get_latest", dkw |-> NoKw,
          out |-> get_latest(obj, rem, NoKw, fail)]

download_select(obj, rem, kw, fail) ==
    LET artifact_name == Arg(kw, "artifact_name", <<>>)
    IN  IF Truthy(artifact_name)
        THEN [delegate |-> "get_by_name", dkw |-> [artifact_name |-> artifact_name],
              out |-> get_by_name(obj, rem, artifact_name, fail)]
        ELSE [delegate |-> "get_latest", dkw |-> NoKw,
              out |-> get_latest(obj, rem, NoKw, fail)]

(* variant: the path argument is ignored *)
DestDir_AlwaysTmp(path) == TMP_DIR

DestDir(path) == IF Truthy(path) THEN path ELSE TMP_DIR

(***************************************************************************)
(* State.                                                                  *)
(*   self     the Artifactory object: its fields and its client            *)
(*   remote   the repository: the URL it serves and the entries under it   *)
(*   fs       the local files                                              *)
(*   pc       "new" before __init__, "idle" between calls, else the        *)
(*            position inside download                                     *)
(*   dl       the locals of the current (or last) download                 *)
(*   handles  whether the remote stream fl and the local file out are open *)
(*   result   what the last call returned or raised                        *)
(*   call     the last call: method, arguments, selector it delegated to,  *)
(*            entries examined, clients enumerated                         *)
(*   created  the number of clients created so far                         *)
(*   ncalls   the number of calls made by the user so far                  *)
(***************************************************************************)
NoDl ==
    [artifact |-> NoEntry, artifactory_path |-> <<>>, buf |-> <<>>,
     pending |-> NoError, stream |-> 0, before |-> Absent]

NoResult == [status |-> "none", value |-> NoEntry, error |-> NoError]

NoCall ==
    [op |-> "", kw |-> NoKw, delegate |-> "", dkw |-> NoKw, scanned |-> 0, enum |-> <<>>]

Closed == [fl |-> FALSE, out |-> FALSE]

Outcome(o) == [status |-> o.status, value |-> o.value, error |-> o.error]

CtorArgs ==
    { [url |-> <<"h">>, repo |-> <<"r">>, group |-> <<"g">>, artifact |-> <<"a">>,
       version |-> <<"v">>, username |-> <<"u">>, password |-> <<"p">>] }

UrlArgs ==
    [url : {<<>>, <<"h", "t", "t", "p", "s", ":", "/", "/", "h">>, <<"h", "/">>},
     repo : {<<>>, <<"r">>, <<"{", "u", "r", "l", "}">>},
     group : {<<>>, <<"g">>, <<"g", "/", "/", "x">>},
     artifact : {<<>>, <<"a">>, <<" ", "a", " ">>},
     version : {<<>>, <<"v">>, <<"/">>},
     username : {<<"u">>}, password : {<<"p">>}]

Init ==
    /\ \E a \in CtorArgs : self = __init__(a, 1)
    /\ \E l \in Listings : remote = [url |-> self.client.url, entries |-> l]
    /\ fs = [k \in FsKeys |-> Absent]
    /\ pc = "idle"
    /\ dl = NoDl
    /\ handles = Closed
    /\ result = NoResult
    /\ call = NoCall
    /\ created = 1
    /\ ncalls = 0

(***************************************************************************)
(* get_by_name(artifact_name) and get_latest(mime_type=...) called by the  *)
(* user.                                                                   *)
(***************************************************************************)
call_get_by_name(artifact_name, fail) ==
    /\ pc = "idle"
    /\ ncalls < MaxCalls
    /\ ncalls' = ncalls + 1
    /\ LET o == get_by_name(self, remote, artifact_name, fail)
       IN  /\ result' = Outcome(o)
           /\ call' = [op |-> "get_by_name", kw |-> [artifact_name |-> artifact_name],
                       delegate |-> "", dkw |-> NoKw,
                       scanned |-> o.scanned, enum |-> o.enum]
    /\ UNCHANGED <<self, remote, fs, pc, dl, handles, created>>

(* variant: get_latest builds a fresh client for its enumeration *)
call_get_latest_NewClient(kw, fail) ==
    /\ pc = "idle"
    /\ ncalls < MaxCalls
    /\ ncalls' = ncalls + 1
    /\ self' = [self EXCEPT !.client =
                    ArtifactoryPath(_construct_url(self),
                                    <<self.username, self.password>>, created + 1)]
    /\ created' = created + 1
    /\ LET o == get_latest(self', remote, kw, fail)
       IN  /\ result' = Outcome(o)
           /\ call' = [op |-> "get_latest", kw |-> kw, delegate |-> "", dkw |-> NoKw,
                       scanned |-> o.scanned, enum |-> o.enum]
    /\ UNCHANGED <<remote, fs, pc, dl, handles>>

call_get_latest(kw, fail) ==
    /\ pc = "idle"
    /\ ncalls < MaxCalls
    /\ ncalls' = ncalls + 1
    /\ LET o == get_latest(self, remote, kw, fail)
       IN  /\ result' = Outcome(o)
           /\ call' = [op |-> "get_latest", kw |-> kw, delegate |-> "", dkw |-> NoKw,
                       scanned |-> o.scanned, enum |-> o.enum]
    /\ UNCHANGED <<self, remote, fs, pc, dl, handles, created>>

(***************************************************************************)
(* download(artifact_name="", path=""), step by step.                      *)
(***************************************************************************)
(* lines 97-106: select, compute the destination, log *)
download_begin(kw, fail) ==
    /\ pc = "idle"
    /\ ncalls < MaxCalls
    /\ ncalls' = ncalls + 1
    /\ LET s == download_select(self, remote, kw, fail)
           artifact == s.out.value
           artifactory_path ==
               os_path_join(DestDir(Arg(kw, "path", <<>>)), artifact.name)
       IN  /\ call' = [op |-> "download", kw |-> kw, delegate |-> s.delegate,
                       dkw |-> s.dkw, scanned |-> s.out.scanned, enum |-> s.out.enum]
           /\ IF s.out.status = "raise"
              THEN /\ result' = Outcome(s.out)
                   /\ dl' = NoDl
                   /\ pc' = "idle"
              ELSE /\ result' = NoResult
                   /\ dl' = [NoDl EXCEPT !.artifact = artifact,
                                         !.artifactory_path = artifactory_path,
                                         !.before = fs[Resolve(artifactory_path)]]
                   /\ pc' = "open_stream"
    /\ UNCHANGED <<self, remote, fs, handles, created>>

(* variant: the destination file is opened before the remote stream *)
download_open_stream_Touch(fail) ==
    /\ pc = "open_stream"
    /\ fs' = [fs EXCEPT ![Resolve(dl.artifactory_path)] = File(<<>>)]
    /\ IF fail
       THEN /\ result' = [status |-> "raise", value |-> NoEntry, error |-> UpstreamError]
            /\ pc' = "idle"
            /\ UNCHANGED <<handles, dl>>
       ELSE /\ handles' = [handles EXCEPT !.fl = TRUE]
            /\ dl' = [dl EXCEPT !.stream = dl.artifact.idx]
            /\ pc' = "open_file"
            /\ UNCHANGED result
    /\ UNCHANGED <<self, remote, call, created, ncalls>>

(* line 108: with artifact.open() as fl *)
download_open_stream(fail) ==
    /\ pc = "open_stream"
    /\ IF fail
       THEN /\ result' = [status |-> "raise", value |-> NoEntry, error |-> UpstreamError]
            /\ pc' = "idle"
            /\ UNCHANGED <<handles, dl>>
       ELSE /\ handles' = [handles EXCEPT !.fl = TRUE]
            /\ dl' = [dl EXCEPT !.stream = dl.artifact.idx]
            /\ pc' = "open_file"
            /\ UNCHANGED result
    /\ UNCHANGED <<self, remote, fs, call, created, ncalls>>

(* variant: no with block around the stream, an open failure skips its close *)
download_open_file_Leak(fail) ==
    /\ pc = "open_file"
    /\ IF fail
       THEN /\ result' = [status |-> "raise", value |-> NoEntry, error |-> OSError]
            /\ pc' = "idle"
            /\ UNCHANGED <<handles, fs, dl>>
       ELSE /\ fs' = [fs EXCEPT ![Resolve(dl.artifactory_path)] = File(<<>>)]
            /\ handles' = [handles EXCEPT !.out = TRUE]
            /\ pc' = "read"
            /\ UNCHANGED <<dl, result>>
    /\ UNCHANGED <<self, remote, call, created, ncalls>>

(* line 109: with open(artifactory_path, "wb") as out *)
download_open_file(fail) ==
    /\ pc = "open_file"
    /\ IF fail
       THEN /\ dl' = [dl EXCEPT !.pending = OSError]
            /\ pc' = "exit_fl"
            /\ UNCHANGED <<handles, fs>>
       ELSE /\ fs' = [fs EXCEPT ![Resolve(dl.artifactory_path)] = File(<<>>)]
            /\ handles' = [handles EXCEPT !.out = TRUE]
            /\ pc' = "read"
            /\ UNCHANGED dl
    /\ UNCHANGED <<self, remote, result, call, created, ncalls>>

(* line 110: fl.read() *)
download_read(fail) ==
    /\ pc = "read"
    /\ IF fail
       THEN /\ dl' = [dl EXCEPT !.pending = UpstreamError]
            /\ pc' = "exit_out"
       ELSE /\ dl' = [dl EXCEPT !.buf = remote.entries[dl.stream].content]
            /\ pc' = "write"
    /\ UNCHANGED <<self, remote, fs, handles, result, call, created, ncalls>>

(* line 110: out.write(...); a failing write leaves part of the data *)
download_write(fail) ==
    /\ pc = "write"
    /\ IF fail
       THEN /\ \E part \in Prefixes(dl.buf) \ {dl.buf} :
                 fs' = [fs EXCEPT ![Resolve(dl.artifactory_path)] = File(part)]
            /\ dl' = [dl EXCEPT !.pending = OSError]
       ELSE /\ fs' = [fs EXCEPT ![Resolve(dl.artifactory_path)] = File(dl.buf)]
            /\ UNCHANGED dl
    /\ pc' = "exit_out"
    /\ UNCHANGED <<self, remote, handles, result, call, created, ncalls>>

(* end of the inner with block: out is closed, also when an error passes *)
download_exit_out ==
    /\ pc = "exit_out"
    /\ handles' = [handles EXCEPT !.out = FALSE]
    /\ pc' = "exit_fl"
    /\ UNCHANGED <<self, remote, fs, dl, result, call, created, ncalls>>

(* end of the outer with block: fl is closed; line 112 or the pending error *)
download_exit_fl ==
    /\ pc = "exit_fl"
    /\ handles' = [handles EXCEPT !.fl = FALSE]
    /\ result' = IF dl.pending = NoError
                 THEN [status |-> "return", value |-> dl.artifact, error |-> NoError]
                 ELSE [status |-> "raise", value |-> NoEntry, error |-> dl.pending]
    /\ pc' = "idle"
    /\ UNCHANGED <<self, remote, fs, dl, call, created, ncalls>>

ReqNames == Names \cup {<<>>}

MimeKws == {NoKw} \cup {[mime_type |-> m] : m \in Mimes}

DownloadKws ==
    {NoKw}
    \cup {[artifact_name |-> n] : n \in ReqNames}
    \cup {[path |-> p] : p \in PathArgs}
    \cup {[artifact_name |-> n, path |-> p] : n \in ReqNames, p \in PathArgs}

Next ==
    \/ \E n \in ReqNames, fail \in BOOLEAN : call_get_by_name(n, fail)
    \/ \E kw \in MimeKws, fail \in BOOLEAN : call_get_latest(kw, fail)
    \/ \E kw \in DownloadKws, fail \in BOOLEAN : download_begin(kw, fail)
    \/ \E fail \in BOOLEAN : download_open_stream(fail)
    \/ \E fail \in BOOLEAN : download_open_file(fail)
    \/ \E fail \in BOOLEAN : download_read(fail)
    \/ \E fail \in BOOLEAN : download_write(fail)
    \/ download_exit_out
    \/ download_exit_fl

Spec == Init /\ [][Next]_vars

(***************************************************************************)
(* Construction alone: the arguments are drawn, __init__ runs once.        *)
(***************************************************************************)
InitUrl ==
    /\ self = Unbuilt
    /\ \E a \in UrlArgs : call = [NoCall EXCEPT !.op = "__init__", !.kw = a]
    /\ remote = [url |-> <<>>, entries |-> <<>>]
    /\ fs = [k \in FsKeys |-> Absent]
    /\ pc = "new"
    /\ dl = NoDl
    /\ handles = Closed
    /\ result = NoResult
    /\ created = 0
    /\ ncalls = 0

construct ==
    /\ pc = "new"
    /\ self' = __init__(call.kw, created + 1)
    /\ created' = created + 1
    /\ pc' = "idle"
    /\ UNCHANGED <<remote, fs, dl, handles, result, call, ncalls>>

NextUrl == construct

SpecUrl == InitUrl /\ [][NextUrl]_vars

(***************************************************************************)
(* Properties.                                                             *)
(***************************************************************************)
NamedIdx(x) == {i \in 1..Len(remote.entries) : remote.entries[i].name = x}
MimeIdx(m) == {i \in 1..Len(remote.entries) : remote.entries[i].mime = m}

Listed(i) ==
    [idx |-> i, name |-> remote.entries[i].name, mime |-> remote.entries[i].mime,
     content |-> remote.entries[i].content]

Finished(op) == pc = "idle" /\ call.op = op
Upstream == result.status = "raise" /\ result.error = UpstreamError

(* C1: get_latest(M) on a listing with no entry of MIME type M (the empty  *)
(* listing included) raises the explicit not-found error, not an           *)
(* unbound-variable fault at the logging statement.                        *)
C1_LatestNotFound ==
    (Finished("get_latest") /\ ~Upstream
        /\ MimeIdx(Arg(call.kw, "mime_type", JAR)) = {})
    => (result.status = "raise" /\ result.error.type = "Exception")

C1_Input ==
    /\ Finished("get_latest")
    /\ remote.entries = <<>>
    /\ call.kw = NoKw
    /\ result.error = UnboundLocalError

(* C2: when the listing contains an entry named X, get_by_name(X) returns  *)
(* the entry named X with the greatest index in listing order.             *)
C2_ByNameLast ==
    (Finished("get_by_name") /\ ~Upstream /\ NamedIdx(call.kw.artifact_name) # {})
    => /\ result.status = "return"
       /\ result.value.name = call.kw.artifact_name
       /\ result.value = Listed(Max(NamedIdx(call.kw.artifact_name)))

C2_Witness ==
    /\ Finished("get_by_name")
    /\ Cardinality(NamedIdx(call.kw.artifact_name)) = 2
    /\ remote.entries[1].content # remote.entries[2].content
    /\ result.status = "return"
    /\ result.value.idx = 2

(* C3: when no entry of the listing (the empty listing included) has the   *)
(* requested name, get_by_name raises the not-found error carrying that    *)
(* name, returns no entry, and has examined every entry of the listing.    *)
C3_ByNameNotFound ==
    (Finished("get_by_name") /\ ~Upstream /\ NamedIdx(call.kw.artifact_name) = {})
    => /\ result.status = "raise"
       /\ result.error = NotFound(call.kw.artifact_name)
       /\ result.value = NoEntry
       /\ call.scanned = Len(remote.entries)

C3_Witness ==
    /\ Finished("get_by_name")
    /\ Len(remote.entries) = 2
    /\ call.kw.artifact_name = <<"b">>
    /\ result.error = NotFound(<<"b">>)
    /\ call.scanned = 2

(* C4: when the listing contains an entry of MIME type M, get_latest(M)    *)
(* returns the entry of type M with the greatest index in listing order,   *)
(* whatever entries of other types come after it.                          *)
C4_LatestLast ==
    (Finished("get_latest") /\ ~Upstream
        /\ MimeIdx(Arg(call.kw, "mime_type", JAR)) # {})
    => /\ result.status = "return"
       /\ result.value.mime = Arg(call.kw, "mime_type", JAR)
       /\ result.value = Listed(Max(MimeIdx(Arg(call.kw, "mime_type", JAR))))

C4_Witness ==
    /\ Finished("get_latest")
    /\ Len(remote.entries) = 2
    /\ remote.entries[1].mime = POM
    /\ remote.entries[2].mime = JAR
    /\ call.kw = [mime_type |-> POM]
    /\ result.status = "return"
    /\ result.value.idx = 1

(* C5: after a successful download the file <path>/<name of the selected   *)
(* entry> (path replaced by /tmp when empty) holds exactly the bytes of    *)
(* the selected entry's stream, whatever was there before, and the entry   *)
(* returned is the entry whose stream was read.                            *)
C5_Destination ==
    LET path == Arg(call.kw, "path", <<>>)
        dir == IF path = <<>> THEN TMP_DIR ELSE path
    IN  Resolve(dir \o <<"/">> \o result.value.name)

C5_DownloadWrites ==
    (Finished("download") /\ result.status = "return")
    => /\ C5_Destination \in FsKeys
       /\ fs[C5_Destination] = File(result.value.content)
       /\ result.value = Listed(result.value.idx)
       /\ dl.stream = result.value.idx

C5_Witness ==
    /\ Finished("download")
    /\ result.status = "return"
    /\ Arg(call.kw, "path", <<>>) = <<"/", "o", "/">>
    /\ dl.before.exists
    /\ dl.before.data # result.value.content
    /\ fs[C5_Destination] = File(result.value.content)

(* C6: download without artifact_name and download with artifact_name ""   *)
(* both delegate to get_latest with its default MIME type and select the   *)
(* last application/java-archive entry (or fail as get_latest fails);      *)
(* download with a non-empty name n delegates to get_by_name(n) and        *)
(* selects the last entry named n (or raises not-found for n).             *)
C6_Delegation ==
    call.op = "download" =>
        LET n == Arg(call.kw, "artifact_name", <<>>)
            selected == dl.artifact # NoEntry
        IN  IF n = <<>>
            THEN /\ call.delegate = "get_latest"
                 /\ call.dkw = NoKw
                 /\ selected => /\ MimeIdx(JAR) # {}
                                /\ dl.artifact = Listed(Max(MimeIdx(JAR)))
                 /\ ~selected => /\ result.status = "raise"
                                 /\ Upstream \/ (MimeIdx(JAR) = {}
                                                 /\ result.error = UnboundLocalError)
            ELSE /\ call.delegate = "get_by_name"
                 /\ call.dkw = [artifact_name |-> n]
                 /\ selected => /\ NamedIdx(n) # {}
                                /\ dl.artifact = Listed(Max(NamedIdx(n)))
                 /\ ~selected => /\ result.status = "raise"
                                 /\ Upstream \/ (NamedIdx(n) = {}
                                                 /\ result.error = NotFound(n))

C6_Witness ==
    /\ Finished("download")
    /\ call.kw = [artifact_name |-> <<>>]
    /\ result.status = "return"
    /\ Len(remote.entries) = 2
    /\ remote.entries[2].mime = POM
    /\ result.value.idx = 1

(* C7: the URL given to the client is url + "/artifactory/" + repo + "/" + *)
(* group + "/" + artifact + "/" + version, every field verbatim; for       *)
(* https://h, r, g, a, v it is https://h/artifactory/r/g/a/v.              *)
C7_Example ==
    [url |-> <<"h", "t", "t", "p", "s", ":", "/", "/", "h">>, repo |-> <<"r">>,
     group |-> <<"g">>, artifact |-> <<"a">>, version |-> <<"v">>,
     username |-> <<"u">>, password |-> <<"p">>]

C7_UrlVerbatim ==
    (pc = "idle" /\ call.op = "__init__")
    => /\ self.client.url =
            call.kw.url \o <<"/", "a", "r", "t", "i", "f", "a", "c", "t", "o", "r", "y", "/">>
            \o call.kw.repo \o <<"/">> \o call.kw.group \o <<"/">>
            \o call.kw.artifact \o <<"/">> \o call.kw.version
       /\ call.kw = C7_Example =>
            self.client.url =
                <<"h", "t", "t", "p", "s", ":", "/", "/", "h", "/",
                  "a", "r", "t", "i", "f", "a", "c", "t", "o", "r", "y", "/",
                  "r", "/", "g", "/", "a", "/", "v">>

C7_Witness ==
    /\ pc = "idle"
    /\ call.op = "__init__"
    /\ call.kw = C7_Example
    /\ Len(self.client.url) = 29

(* C8: whenever download has returned or raised, neither the remote stream *)
(* nor the destination file is still open; the file is never open without  *)
(* the stream being open.                                                  *)
C8_HandlesReleased ==
    /\ pc = "idle" => (~handles.fl /\ ~handles.out)
    /\ handles.out => handles.fl

C8_Witness ==
    /\ Finished("download")
    /\ result.status = "raise"
    /\ result.error = OSError
    /\ dl.stream # 0
    /\ fs[Resolve(dl.artifactory_path)] = dl.before
    /\ handles = Closed

(* C9: no call changes the fields of the object, its credentials or its    *)
(* client; no client is created after construction; every enumeration of   *)
(* the listing goes through that client.                                   *)
C9_ObjectFrame ==
    [][/\ self' = self
       /\ created' = created
       /\ created' = 1
       /\ \A i \in 1..Len(call'.enum) : call'.enum[i] = self.client.id]_vars

C9_Witness ==
    /\ pc = "idle"
    /\ ncalls = 2
    /\ call.op = "download"
    /\ result.status = "return"
    /\ call.enum = <<1>>
    /\ created = 1

(* C10: a download that fails during selection or while opening the remote *)
(* stream raises to the caller without having created, truncated or        *)
(* written any local file; the local filesystem is touched only after the  *)
(* remote stream has been opened.                                          *)
C10_NoFileBeforeStream ==
    [][/\ pc \in {"idle", "open_stream"} => (fs' = fs /\ ~handles'.out)
       /\ (pc = "open_stream" /\ pc' = "idle") => result'.status = "raise"
       /\ (pc = "idle" /\ pc' = "idle" /\ call'.op = "download")
            => result'.status = "raise"]_vars

C10_Witness ==
    /\ Finished("download")
    /\ result.status = "raise"
    /\ dl.artifact # NoEntry
    /\ dl.stream = 0
    /\ dl.before.exists
    /\ fs[Resolve(dl.artifactory_path)] = dl.before
====
